---- MODULE Spec2Model ----
(***************************************************************************)
(* Model of package validate (mailstepcz/required): the generic container  *)
(* Required[T], the reflective validator Struct and the convenience entry  *)
(* point Parse.                                                            *)
(*                                                                         *)
(* Two specifications share the pure operators below:                      *)
(*   SpecRequired  one Required[T] container driven by any sequence of its *)
(*                 public methods;                                         *)
(*   Spec          one structure instance that is decoded into, mutated by *)
(*                 application code and handed to Struct and Parse.        *)
(***************************************************************************)
EXTENDS Integers, Sequences, FiniteSets, TLC

VARIABLES
    T,        \* SpecRequired: the type parameter of the container
    r,        \* SpecRequired: the container, [value, valid]
    call,     \* SpecRequired: the last method call, its argument, result and pre-state
    decoded,  \* SpecRequired: history, UnmarshalJSON has succeeded at least once
    marked,   \* SpecRequired: history, SetValid has been called at least once
    held,     \* SpecRequired: the handles to r.value the caller has obtained
    ty,       \* Spec: the structure type of the instance
    obj,      \* Spec: the structure instance, [cells, nilptr]
    dec,      \* Spec: history, the last decode into the instance
    out       \* Spec: the last call on the instance and its outcome

vars == <<T, r, call, decoded, marked, held, ty, obj, dec, out>>
reqVars == <<T, r, call, decoded, marked, held>>
structVars == <<ty, obj, dec, out>>

(***************************************************************************)
(* Go values of the two element types the model instantiates T with.       *)
(***************************************************************************)
IntVal(n) == [t |-> "int", i |-> n, s |-> ""]
StrVal(x) == [t |-> "string", i |-> 0, s |-> x]

ElemTypes == {"int", "string"}

Zero(tp) == IF tp = "int" THEN IntVal(0) ELSE StrVal("")

NoError == "nil"

(***************************************************************************)
(* encoding/json on a single JSON text.                                    *)
(***************************************************************************)
IntLits == {"0", "7"}
StrLits == {"\"\"", "\"x\""}
Payloads == IntLits \cup StrLits \cup {"null", "{"}

IntOf == ("0" :> 0) @@ ("7" :> 7)
Unquote == ("\"\"" :> "") @@ ("\"x\"" :> "x")

ValidJSON(b) == b \in IntLits \cup StrLits \cup {"null"}

\* json.Unmarshal(b, &cur) for cur of type tp: the error and the value left in cur.
jsonUnmarshal(b, tp, cur) ==
    IF ~ValidJSON(b) THEN [err |-> "SyntaxError", value |-> cur]
    ELSE IF b = "null" THEN [err |-> NoError, value |-> cur]
    ELSE IF tp = "int" /\ b \in IntLits THEN [err |-> NoError, value |-> IntVal(IntOf[b])]
    ELSE IF tp = "string" /\ b \in StrLits THEN [err |-> NoError, value |-> StrVal(Unquote[b])]
    ELSE [err |-> "UnmarshalTypeError", value |-> cur]

(***************************************************************************)
(* Required[T]                                                             *)
(***************************************************************************)
ZeroRequired(tp) == [value |-> Zero(tp), valid |-> FALSE]

\* UnmarshalJSON changed to count a zero value as no value.
unmarshalJSONSkipsZero(c, tp, b) ==
    LET u == jsonUnmarshal(b, tp, c.value)
    IN  IF u.err # NoError
        THEN [r |-> [c EXCEPT !.value = u.value], err |-> u.err]
        ELSE [r |-> [value |-> u.value, valid |-> u.value # Zero(tp)], err |-> NoError]

\* UnmarshalJSON changed to set the flag before it looks at the error.
unmarshalJSONMarksFirst(c, tp, b) ==
    LET u == jsonUnmarshal(b, tp, c.value)
    IN  [r |-> [value |-> u.value, valid |-> TRUE], err |-> u.err]

\* (r *Required[T]) UnmarshalJSON(b): the container afterwards and the error.
unmarshalJSON(c, tp, b) ==
    LET u == jsonUnmarshal(b, tp, c.value)
    IN  IF u.err # NoError
        THEN [r |-> [c EXCEPT !.value = u.value], err |-> u.err]
        ELSE [r |-> [value |-> u.value, valid |-> TRUE], err |-> NoError]

\* HasValue changed to mark the container it is asked about.
hasValueMarks(c) == [r |-> [c EXCEPT !.valid = TRUE], ret |-> c.valid]

\* (r *Required[T]) HasValue(): a pointer-receiver method, so the receiver as the
\* call leaves it is part of the result.
hasValue(c) == [r |-> c, ret |-> c.valid]

\* SetValid changed to store its argument.
setValidAssigns(c, v) == [c EXCEPT !.valid = v]

\* (r *Required[T]) SetValid(v): the argument is not used.
setValid(c, v) == [c EXCEPT !.valid = TRUE]

\* (r *Required[T]) String(): fmt.Sprintf("%v", r.value), or "N/A".
stringOf(c) ==
    IF c.valid
    THEN (IF c.value.t = "int" THEN CHOOSE b \in IntLits : IntOf[b] = c.value.i
          ELSE c.value.s)
    ELSE "N/A"

Handles == {"Ptr", "UnsafePtr", "SettableValue"}

Values(tp) == IF tp = "int" THEN {IntVal(0), IntVal(7)} ELSE {StrVal(""), StrVal("x")}

NoCall == [op |-> "new", arg |-> "", pre |-> ZeroRequired("int"), ret |-> "", err |-> NoError]

Called(op, arg, ret, err) == [op |-> op, arg |-> arg, pre |-> r, ret |-> ret, err |-> err]

UnmarshalJSON(b) ==
    LET u == unmarshalJSON(r, T, b)
    IN  /\ r' = u.r
        /\ decoded' = (decoded \/ u.err = NoError)
        /\ call' = Called("UnmarshalJSON", b, "", u.err)
        /\ UNCHANGED <<T, marked, held>>
        /\ UNCHANGED structVars

SetValid(v) ==
    /\ r' = setValid(r, v)
    /\ marked' = TRUE
    /\ call' = Called("SetValid", IF v THEN "true" ELSE "false", "", NoError)
    /\ UNCHANGED <<T, decoded, held>>
    /\ UNCHANGED structVars

HasValue ==
    /\ r' = hasValue(r).r
    /\ call' = Called("HasValue", "", IF hasValue(r).ret THEN "true" ELSE "false", NoError)
    /\ UNCHANGED <<T, decoded, marked, held>>
    /\ UNCHANGED structVars

Value ==
    /\ call' = Called("Value", "", r.value, NoError)
    /\ UNCHANGED <<T, r, decoded, marked, held>>
    /\ UNCHANGED structVars

String ==
    /\ call' = Called("String", "", stringOf(r), NoError)
    /\ UNCHANGED <<T, r, decoded, marked, held>>
    /\ UNCHANGED structVars

RequiredType ==
    /\ call' = Called("RequiredType", "", T, NoError)
    /\ UNCHANGED <<T, r, decoded, marked, held>>
    /\ UNCHANGED structVars

\* Ptr, UnsafePtr and SettableValue hand out a handle to r.value.
Obtain(h) ==
    /\ held' = held \cup {h}
    /\ call' = Called(h, "", "&value", NoError)
    /\ UNCHANGED <<T, r, decoded, marked>>
    /\ UNCHANGED structVars

\* The caller assigns through a handle it holds; the flag is not touched.
StoreThrough(h, x) ==
    /\ h \in held
    /\ r' = [r EXCEPT !.value = x]
    /\ call' = Called("store", h, "", NoError)
    /\ UNCHANGED <<T, decoded, marked, held>>
    /\ UNCHANGED structVars

RequiredNext ==
    \/ \E b \in Payloads : UnmarshalJSON(b)
    \/ \E v \in BOOLEAN : SetValid(v)
    \/ HasValue
    \/ Value
    \/ String
    \/ RequiredType
    \/ \E h \in Handles : Obtain(h)
    \/ \E h \in Handles : \E x \in Values(T) : StoreThrough(h, x)

(***************************************************************************)
(* Structure types.  Person is the structure of the package's tests; the   *)
(* others are structures a caller can declare around Required fields.      *)
(***************************************************************************)
Pkg == "validate"

ReqInt == "Required[int]"
ReqString == "Required[string]"

Fld(name, tag, type) ==
    [Name |-> name, Tag |-> tag, Type |-> type, Anonymous |-> FALSE, PkgPath |-> ""]
Unexported(name, type) ==
    [Name |-> name, Tag |-> "", Type |-> type, Anonymous |-> FALSE, PkgPath |-> Pkg]
Embedded(name, type) ==
    [Name |-> name, Tag |-> "", Type |-> type, Anonymous |-> TRUE, PkgPath |-> ""]
EmbeddedUnexported(name, type) ==
    [Name |-> name, Tag |-> "", Type |-> type, Anonymous |-> TRUE, PkgPath |-> Pkg]

StructDecl ==
    ("Person" :> <<Fld("Name", "name", ReqString), Fld("Age", "age", ReqInt)>>)
 @@ ("Contact" :> <<Fld("Name", "name", ReqString), Fld("Note", "note", "string"),
                    Fld("Age", "age", ReqInt)>>)
 @@ ("Base" :> <<Fld("ID", "id", ReqInt)>>)
 @@ ("Account" :> <<Fld("ID", "id", ReqInt), Unexported("secret", "int")>>)
 @@ ("Employee" :> <<Embedded("Base", "Base"), Fld("Name", "name", ReqString)>>)
 @@ ("Manager" :> <<Fld("ID", "id", ReqInt), Embedded("Base", "Base")>>)
 @@ ("Intern" :> <<Embedded("Base", "*Base"), Fld("Name", "name", ReqString)>>)
 @@ ("base" :> <<Fld("ID", "id", ReqInt)>>)
 @@ ("Clerk" :> <<EmbeddedUnexported("base", "base"), Fld("Name", "name", ReqString)>>)
 @@ (ReqInt :> <<Unexported("value", "int"), Unexported("valid", "bool")>>)
 @@ (ReqString :> <<Unexported("value", "string"), Unexported("valid", "bool")>>)

\* The structure types an instance is made of.
InstanceTypes ==
    {"Person", "Contact", "Base", "Account", "Employee", "Manager", "Intern", "Clerk"}

IsRequired(type) == type \in {ReqInt, ReqString}

\* reflect.TypeFor[T]() of a Required[T].
ElemType(type) == IF type = ReqInt THEN "int" ELSE "string"

Kind(type) ==
    IF type \in DOMAIN StructDecl THEN "Struct"
    ELSE IF type = "*Base" THEN "Pointer"
    ELSE IF type = "int" THEN "Int"
    ELSE IF type = "string" THEN "String"
    ELSE "Bool"

Elem(type) == IF type = "*Base" THEN "Base" ELSE type

\* v.Type() as %s prints it, in pieces.
TypeName(t) == <<Pkg, ".", t>>

(***************************************************************************)
(* reflect.VisibleFields: the walk over a structure type, embedded members *)
(* followed by their promoted fields, a name hidden by a shallower field   *)
(* of the same name and cancelled by one at the same depth.                *)
(***************************************************************************)
RECURSIVE walk(_, _, _)
RECURSIVE walkFrom(_, _, _, _)

\* The field f of a structure type as reflect.StructField, with its index.
StructField(f, idx) ==
    [Name |-> f.Name, Tag |-> f.Tag, Type |-> f.Type, Anonymous |-> f.Anonymous,
     PkgPath |-> f.PkgPath, Index |-> idx]

\* The depth of the field a name was last added for (0: the name is new).
OldDepth(w, name) ==
    IF name \in DOMAIN w.byName THEN Len(w.fields[w.byName[name]].Index) ELSE 0

\* An old field of the same name that is as deep or deeper loses its name.
hideOld(w, sf, oldDepth) ==
    IF oldDepth # 0 /\ Len(sf.Index) <= oldDepth
    THEN [w EXCEPT !.fields[w.byName[sf.Name]].Name = ""]
    ELSE w

\* The field is added when its name is new or the old field is deeper.
addField(w, sf, oldDepth) ==
    IF oldDepth = 0 \/ Len(sf.Index) < oldDepth
    THEN [w EXCEPT !.fields = Append(@, sf),
                   !.byName = (sf.Name :> (Len(w.fields) + 1)) @@ @]
    ELSE w

\* An embedded structure, or pointer to one, is walked in turn.
descend(w, sf) ==
    IF sf.Anonymous /\ Kind(Elem(sf.Type)) = "Struct"
    THEN walk(w, Elem(sf.Type), sf.Index)
    ELSE w

visit(w, sf) ==
    descend(addField(hideOld(w, sf, OldDepth(w, sf.Name)), sf, OldDepth(w, sf.Name)), sf)

walkFrom(w, t, index, i) ==
    IF i > Len(StructDecl[t]) THEN w
    ELSE walkFrom(visit(w, StructField(StructDecl[t][i], Append(index, i))), t, index, i + 1)

leave(w, t) == [w EXCEPT !.visiting = @ \ {t}]

walk(w, t, index) ==
    IF t \in w.visiting THEN w
    ELSE leave(walkFrom([w EXCEPT !.visiting = @ \cup {t}], t, index, 1), t)

Named(fields) == SelectSeq(fields, LAMBDA f : f.Name # "")

VisibleFields(t) ==
    Named(walk([fields |-> <<>>, byName |-> <<>>, visiting |-> {}], t, <<>>).fields)

\* reflect.VisibleFields(v.Type()) of each instance type, computed once.
Visible == [t \in InstanceTypes |-> VisibleFields(t)]

(***************************************************************************)
(* Structure instances: the storage of every leaf field, by its path of    *)
(* field numbers, and the embedded pointers that are nil.                  *)
(***************************************************************************)
RECURSIVE storage(_, _)

\* The storage of one field f at path p: a leaf, or what an embedded structure
\* holds, with the pointer itself when it is embedded by pointer.
fieldStorage(f, p) ==
    IF IsRequired(f.Type) \/ Kind(Elem(f.Type)) # "Struct"
    THEN {[path |-> p, type |-> f.Type]}
    ELSE storage(Elem(f.Type), p) \cup
         (IF Kind(f.Type) = "Pointer" THEN {[path |-> p, type |-> f.Type]} ELSE {})

storage(t, prefix) ==
    UNION {fieldStorage(StructDecl[t][i], Append(prefix, i)) : i \in 1..Len(StructDecl[t])}

\* The layout of each instance type, computed once.
Layout == [t \in InstanceTypes |-> storage(t, <<>>)]

TypeAt(t, p) == (CHOOSE c \in Layout[t] : c.path = p).type

LeafPaths(t) == {c.path : c \in {x \in Layout[t] : Kind(x.type) # "Pointer"}}
PtrPaths(t) == {c.path : c \in {x \in Layout[t] : Kind(x.type) = "Pointer"}}
RequiredPaths(t) == {c.path : c \in {x \in Layout[t] : IsRequired(x.type)}}
PlainPaths(t) == {c.path : c \in {x \in Layout[t] : Kind(x.type) \in {"Int", "String"}}}

ZeroCell(type) == IF IsRequired(type) THEN ZeroRequired(ElemType(type)) ELSE Zero(type)

\* var s T
ZeroStruct(t) ==
    [cells |-> [p \in LeafPaths(t) |-> ZeroCell(TypeAt(t, p))], nilptr |-> PtrPaths(t)]

(***************************************************************************)
(* reflect.Value.FieldByIndex, Addr and Interface on the addressable value *)
(* of a structure.  A value is [type, path, sticky, embedRO]: the flags    *)
(* are reflect's flagStickyRO and flagEmbedRO.                              *)
(***************************************************************************)
NilEmbedded == "reflect: indirection through nil pointer to embedded struct field"
ReadOnly == "reflect.Value.Interface: cannot return value obtained from unexported field or method"

RECURSIVE fieldByIndexFrom(_, _, _, _)

\* v.Field(i) for a field f of v's structure type.
Field(v, f, i) ==
    [type |-> f.Type,
     path |-> Append(v.path, i),
     sticky |-> v.sticky \/ (f.PkgPath # "" /\ ~f.Anonymous),
     embedRO |-> f.PkgPath # "" /\ f.Anonymous]

\* After the first index, a pointer to a structure is followed.
IsEmbeddedPtr(v, k) == k > 1 /\ Kind(v.type) = "Pointer" /\ Kind(Elem(v.type)) = "Struct"

fieldByIndexFrom(o, v, index, k) ==
    IF k > Len(index) THEN [panic |-> "", v |-> v]
    ELSE IF IsEmbeddedPtr(v, k) /\ v.path \in o.nilptr THEN [panic |-> NilEmbedded, v |-> v]
    ELSE fieldByIndexFrom(o, Field(v, StructDecl[Elem(v.type)][index[k]], index[k]), index, k + 1)

FieldByIndex(t, o, index) ==
    fieldByIndexFrom(o, [type |-> t, path |-> <<>>, sticky |-> FALSE, embedRO |-> FALSE],
                     index, 1)

\* fv.Interface() panics on a value obtained through an unexported field.
CanInterface(v) == ~(v.sticky \/ v.embedRO)

\* fv.Interface().(RequiredIface) for fv the address of a field of this type:
\* the methods have pointer receivers, so *Required[T] is what satisfies it.
IsRequiredIface(type) == IsRequired(type)

(***************************************************************************)
(* Errors.                                                                 *)
(***************************************************************************)
NilErr == [nil |-> TRUE, wraps |-> "", lines |-> <<>>]

ErrBadType == "bad type"

\* fmt.Errorf("%w: %T", ErrBadType, x)
BadTypeError(x) == [nil |-> FALSE, wraps |-> ErrBadType, lines |-> <<<<ErrBadType, ": ">> \o x.type>>]

\* fmt.Errorf("field '%s' in '%s' is required", f.Name, v.Type())
RequiredError(name, t) ==
    [nil |-> FALSE, wraps |-> "", lines |-> <<<<"field '", name, "' in '">> \o TypeName(t) \o <<"' is required">>>>]

\* errors.Join(a, b): nil errors are discarded, the message is the messages
\* joined by a newline, one line in lines each.
errorsJoin(a, b) ==
    IF a.nil /\ b.nil THEN NilErr
    ELSE [nil |-> FALSE, wraps |-> "", lines |-> a.lines \o b.lines]

DecodeError(kind) == [nil |-> FALSE, wraps |-> kind, lines |-> <<<<kind>>>>]

(***************************************************************************)
(* Struct                                                                  *)
(***************************************************************************)
\* The arguments a caller can hand to Struct, for an instance of type t:
\* kind is reflect.ValueOf(x).Kind(), elem is .Elem().Kind(), type is %T.
ArgPtr(t) == [kind |-> "Pointer", elem |-> "Struct", type |-> <<"*">> \o TypeName(t)]
ArgValue(t) == [kind |-> "Struct", elem |-> "", type |-> TypeName(t)]
ArgNilPtr(t) == [kind |-> "Pointer", elem |-> "Invalid", type |-> <<"*">> \o TypeName(t)]
ArgNil == [kind |-> "Invalid", elem |-> "", type |-> <<"<nil>">>]
ArgInt == [kind |-> "Int", elem |-> "", type |-> <<"int">>]
ArgPtrInt == [kind |-> "Pointer", elem |-> "Int", type |-> <<"*", "int">>]
ArgPtrPtr(t) == [kind |-> "Pointer", elem |-> "Pointer", type |-> <<"*", "*">> \o TypeName(t)]

Args(t) == {ArgPtr(t), ArgValue(t), ArgNilPtr(t), ArgNil, ArgInt, ArgPtrInt, ArgPtrPtr(t)}

\* if x, ok := fv.Interface().(RequiredIface); ok { if !x.HasValue() { ... } }
\* for h what x.HasValue() gives.
checkField(t, st, f, path, h) ==
    [panic |-> "",
     err |-> IF ~h.ret THEN errorsJoin(st.err, RequiredError(f.Name, t)) ELSE st.err,
     obj |-> [st.obj EXCEPT !.cells[path] = h.r]]

\* One iteration of the loop over the visible fields, st being [panic, err, obj],
\* for fv what v.FieldByIndex(f.Index) gives.
structField(t, st, f, fv) ==
    IF fv.panic # "" THEN [st EXCEPT !.panic = fv.panic]
    ELSE IF ~CanInterface(fv.v) THEN [st EXCEPT !.panic = ReadOnly]
    ELSE IF ~IsRequiredIface(fv.v.type) THEN st
    ELSE checkField(t, st, f, fv.v.path, hasValue(st.obj.cells[fv.v.path]))

\* for _, f := range fs { ... }: a panic ends the loop and the call.
RECURSIVE structLoop(_, _, _, _)
structLoop(t, st, fs, i) ==
    IF i > Len(fs) \/ st.panic # "" THEN st
    ELSE structLoop(t, structField(t, st, fs[i], FieldByIndex(t, st.obj, fs[i].Index)), fs, i + 1)

\* Struct without the check of what the pointer points to: v.Type() of the
\* zero Value and VisibleFields of a type that is no structure panic.
StructUnchecked(x, t, o) ==
    IF x.kind # "Pointer" THEN [panic |-> "", err |-> BadTypeError(x), obj |-> o]
    ELSE IF x.elem # "Struct" THEN [panic |-> "reflect: not a struct", err |-> NilErr, obj |-> o]
    ELSE structLoop(t, [panic |-> "", err |-> NilErr, obj |-> o], Visible[t], 1)

\* Struct(x) for x an argument about the instance o of type t.
Struct(x, t, o) ==
    IF x.kind # "Pointer" THEN [panic |-> "", err |-> BadTypeError(x), obj |-> o]
    ELSE IF x.elem # "Struct" THEN [panic |-> "", err |-> BadTypeError(x), obj |-> o]
    ELSE structLoop(t, [panic |-> "", err |-> NilErr, obj |-> o], Visible[t], 1)

(***************************************************************************)
(* encoding/json on a document and a structure.  A document is malformed   *)
(* (not JSON) or an object, the sequence of its members [key, b].          *)
(***************************************************************************)
\* The fields json decodes into: the exported visible fields, an embedded
\* structure standing for its fields.
jsonFieldsOf(t) ==
    SelectSeq(Visible[t],
              LAMBDA f : /\ ~(f.Anonymous /\ Kind(Elem(f.Type)) = "Struct")
                         /\ f.PkgPath = "")

jsonFields == [t \in InstanceTypes |-> jsonFieldsOf(t)]

\* The positions in jsonFields of the field a member's key names (at most one:
\* a name that is ambiguous or hidden is not in jsonFields).
FieldsForKey(fields, key) == {n \in 1..Len(fields) : fields[n].Tag = key}

\* The embedded pointers on the way to a field are allocated.
Allocate(o, index) ==
    [o EXCEPT !.nilptr = @ \ {SubSeq(index, 1, k) : k \in 1..(Len(index) - 1)}]

\* A member whose key names a Required field: the decoder calls the field's
\* UnmarshalJSON, and an error it returns ends the decode (u is what it gives).
decodeRequired(st, f, u) ==
    [obj |-> [st.obj EXCEPT !.cells[f.Index] = u.r],
     err |-> IF u.err # NoError THEN DecodeError(u.err) ELSE st.err,
     stop |-> u.err # NoError]

\* A member whose key names a plain field: a type mismatch is saved, the
\* first one is what the decode returns in the end, and the decode goes on
\* (u is what decoding the member's text into the field gives).
decodePlain(st, f, u) ==
    [obj |-> [st.obj EXCEPT !.cells[f.Index] = u.value],
     err |-> IF st.err.nil /\ u.err # NoError THEN DecodeError(u.err) ELSE st.err,
     stop |-> FALSE]

\* A member for the field f, the embedded pointers on the way allocated.
decodeField(st, f, m) ==
    IF IsRequired(f.Type)
    THEN decodeRequired(st, f, unmarshalJSON(st.obj.cells[f.Index], ElemType(f.Type), m.b))
    ELSE decodePlain(st, f, jsonUnmarshal(m.b, f.Type, st.obj.cells[f.Index]))

\* One member of the object: st is [obj, err, stop]; an unknown key is skipped.
decodeMember(st, fields, ns, m) ==
    IF ns = {} THEN st
    ELSE decodeField([st EXCEPT !.obj = Allocate(@, fields[CHOOSE n \in ns : TRUE].Index)],
                     fields[CHOOSE n \in ns : TRUE], m)

RECURSIVE decodeMembers(_, _, _, _)
decodeMembers(t, st, doc, i) ==
    IF i > Len(doc) \/ st.stop THEN st
    ELSE decodeMembers(t, decodeMember(st, jsonFields[t], FieldsForKey(jsonFields[t], doc[i].key), doc[i]),
                       doc, i + 1)

\* json.Unmarshal(doc, &o), json.NewDecoder(r).Decode(&o)
jsonDecode(t, o, doc) ==
    IF doc.malformed THEN [obj |-> o, err |-> DecodeError("SyntaxError"), stop |-> TRUE]
    ELSE decodeMembers(t, [obj |-> o, err |-> NilErr, stop |-> FALSE], doc.members, 1)

(***************************************************************************)
(* Parse                                                                   *)
(***************************************************************************)
\* Parse changed to validate whatever the decode gave.
parseValidatesAnyway(d, s) ==
    [panic |-> s.panic, err |-> IF ~d.err.nil THEN d.err ELSE s.err, obj |-> s.obj,
     invoked |-> TRUE]

\* What Parse gives for d the result of the decode and s that of Struct on the
\* decoded instance: what it returns (or the panic it ends in), whether it
\* called Struct, and the instance afterwards.
parseResult(d, s) ==
    IF ~d.err.nil
    THEN [panic |-> "", err |-> d.err, obj |-> d.obj, invoked |-> FALSE]
    ELSE [panic |-> s.panic, err |-> s.err, obj |-> s.obj, invoked |-> TRUE]

decodeThenStruct(t, d) == parseResult(d, Struct(ArgPtr(t), t, d.obj))

\* Parse(r, &o) for r holding doc.
Parse(t, o, doc) == decodeThenStruct(t, jsonDecode(t, o, doc))

(***************************************************************************)
(* The structure instance and the calls made on it.                        *)
(***************************************************************************)
MaxMembers == 2

DocPayloads == {"7", "\"x\"", "null"}

TagsOf(fields) == {fields[i].Tag : i \in 1..Len(fields)}

\* The members of a document for type t: each JSON name of the type with each
\* payload, and one member no field is named by.
Members(t) ==
    [key : TagsOf(jsonFields[t]), b : DocPayloads] \cup {[key |-> "extra", b |-> "null"]}

\* The documents decoded: not JSON at all, or an object of at most MaxMembers
\* members with distinct keys.
DocsOf(t) ==
    {[malformed |-> TRUE, members |-> <<>>]} \cup
    {[malformed |-> FALSE, members |-> m] :
        m \in {s \in UNION {[1..k -> Members(t)] : k \in 0..MaxMembers} :
                  \A i, j \in 1..Len(s) : s[i].key = s[j].key => i = j}}

Docs == [t \in InstanceTypes |-> DocsOf(t)]

Zeros == [t \in InstanceTypes |-> ZeroStruct(t)]

Keys(doc) == {doc.members[i].key : i \in 1..Len(doc.members)}

\* History: the last decode was a successful one into a zero-valued instance
\* that no tool has marked since ("fresh"), and the keys its document supplied.
NoDecode == [state |-> "none", supplied |-> {}]

Decoded(err, doc) ==
    IF err.nil /\ obj = Zeros[ty] THEN [state |-> "fresh", supplied |-> Keys(doc)]
    ELSE NoDecode

Outcome(op, x, panic, err, invoked, decodeErr, pre) ==
    [op |-> op, arg |-> x, panic |-> panic, err |-> err, invoked |-> invoked,
     decodeErr |-> decodeErr, pre |-> pre]

\* err := json.Unmarshal(doc, &p), d being what the decode gives
unmarshalled(d, doc) ==
    /\ obj' = d.obj
    /\ dec' = Decoded(d.err, doc)
    /\ out' = Outcome("Unmarshal", ArgPtr(ty), "", d.err, FALSE, d.err, d.obj)
    /\ UNCHANGED <<ty, reqVars>>

Unmarshal(doc) == unmarshalled(jsonDecode(ty, obj, doc), doc)

\* err := Parse(r, &p), q being what Parse gives and d what the decode in it gave
parsed(q, d, doc) ==
    /\ obj' = q.obj
    /\ dec' = Decoded(d.err, doc)
    /\ out' = Outcome("Parse", ArgPtr(ty), q.panic, q.err, q.invoked, d.err, d.obj)
    /\ UNCHANGED <<ty, reqVars>>

ParseCall(doc) == parsed(Parse(ty, obj, doc), jsonDecode(ty, obj, doc), doc)

\* err := Struct(x), s being what Struct gives
validated(s, x) ==
    /\ obj' = s.obj
    /\ out' = Outcome("Struct", x, s.panic, s.err, TRUE, NilErr, obj)
    /\ UNCHANGED <<ty, dec, reqVars>>

StructCall(x) == validated(Struct(x, ty, obj), x)

\* p.Note = x: application code assigns a plain field.
Assign(p, x) ==
    /\ p \in PlainPaths(ty)
    /\ x \in Values(TypeAt(ty, p))
    /\ obj' = [obj EXCEPT !.cells[p] = x]
    /\ out' = Outcome("Assign", ArgPtr(ty), "", NilErr, FALSE, NilErr, obj')
    /\ UNCHANGED <<ty, dec, reqVars>>

\* p.Name.SetValid(v): a tool other than the decoder marks a field.
MarkValid(p, v) ==
    /\ p \in RequiredPaths(ty)
    /\ obj' = [obj EXCEPT !.cells[p] = setValid(@, v)]
    /\ dec' = NoDecode
    /\ out' = Outcome("SetValid", ArgPtr(ty), "", NilErr, FALSE, NilErr, obj')
    /\ UNCHANGED <<ty, reqVars>>

RequiredIdle ==
    /\ T = "int"
    /\ r = ZeroRequired("int")
    /\ call = NoCall
    /\ decoded = FALSE
    /\ marked = FALSE
    /\ held = {}

StructIdle ==
    /\ ty = "Person"
    /\ obj = ZeroStruct("Person")
    /\ dec = NoDecode
    /\ out = Outcome("none", ArgNil, "", NilErr, FALSE, NilErr, ZeroStruct("Person"))

Init ==
    /\ ty \in InstanceTypes
    /\ obj = ZeroStruct(ty)
    /\ dec = NoDecode
    /\ out = Outcome("none", ArgNil, "", NilErr, FALSE, NilErr, obj)
    /\ RequiredIdle

AllPaths == UNION {LeafPaths(t) : t \in InstanceTypes}

Next ==
    \/ \E doc \in Docs[ty] : Unmarshal(doc)
    \/ \E doc \in Docs[ty] : ParseCall(doc)
    \/ \E x \in Args(ty) : StructCall(x)
    \/ \E p \in AllPaths : \E x \in Values("int") \cup Values("string") : Assign(p, x)
    \/ \E p \in AllPaths : \E v \in BOOLEAN : MarkValid(p, v)

Spec == Init /\ [][Next]_vars

RequiredInit ==
    /\ T \in ElemTypes
    /\ r = ZeroRequired(T)
    /\ call = NoCall
    /\ decoded = FALSE
    /\ marked = FALSE
    /\ held = {}
    /\ StructIdle

SpecRequired == RequiredInit /\ [][RequiredNext]_vars

(***************************************************************************)
(* Properties.                                                             *)
(***************************************************************************)
\* The last call was Struct(&s) on the instance.
StructOnPtr == out.op = "Struct" /\ out.arg = ArgPtr(ty)

\* The instance was handed to Struct, by the caller or inside Parse.
Validated == StructOnPtr \/ (out.op = "Parse" /\ out.invoked)

\* The visible Required fields of a structure type, as positions in Visible.
VisibleRequired(t) == {n \in 1..Len(Visible[t]) : IsRequired(Visible[t][n].Type)}

\* The field names the lines of the returned error name, in order.
Reported == [n \in 1..Len(out.err.lines) |-> out.err.lines[n][2]]

ReportedTimes(name) == Cardinality({n \in 1..Len(Reported) : Reported[n] = name})

\* C1 (as claimed): after a document supplying the fields S has been decoded
\* into a zero-valued structure with the Required fields N, Struct(&s) reports
\* exactly |N \ S| failures, one per unsupplied field and none for a supplied
\* one, and returns nil exactly when S = N.
C1_FailuresAreUnsupplied ==
    (Validated /\ dec.state = "fresh") =>
        LET unsupplied == {n \in VisibleRequired(ty) : Visible[ty][n].Tag \notin dec.supplied}
        IN  /\ out.panic = ""
            /\ Len(out.err.lines) = Cardinality(unsupplied)
            /\ \A n \in VisibleRequired(ty) :
                  ReportedTimes(Visible[ty][n].Name) = (IF n \in unsupplied THEN 1 ELSE 0)
            /\ out.err.nil <=> unsupplied = {}

\* The value a JSON text denotes for the element type tp.
Denotes(b, tp) ==
    IF b \in IntLits THEN IntVal(IntOf[b])
    ELSE IF b \in StrLits THEN StrVal(Unquote[b])
    ELSE Zero(tp)

\* The JSON text is a well-formed payload for the element type tp.
WellFormed(b, tp) ==
    \/ b = "null"
    \/ tp = "int" /\ b \in IntLits
    \/ tp = "string" /\ b \in StrLits

\* C2 (as claimed): in any prior state, UnmarshalJSON of a well-formed payload
\* returns no error, and afterwards HasValue() is true and Value() is the
\* decoded value.
C2_DecodedValueInAnyState ==
    (call.op = "UnmarshalJSON" /\ WellFormed(call.arg, T)) =>
        /\ call.err = NoError
        /\ hasValue(r).ret
        /\ r.value = Denotes(call.arg, T)

\* C2 (amended): in any prior state, UnmarshalJSON of a well-formed payload
\* returns no error and afterwards HasValue() is true, also when the decoded
\* value is the zero value; Value() is the decoded value when the payload is
\* not null, and a null payload leaves the value as it was (the zero value in
\* a container never written).
C2_DecodedValueUnlessNull ==
    (call.op = "UnmarshalJSON" /\ WellFormed(call.arg, T)) =>
        /\ call.err = NoError
        /\ hasValue(r).ret
        /\ r.value = (IF call.arg = "null" THEN call.pre.value ELSE Denotes(call.arg, T))
        /\ (call.pre = ZeroRequired(T) => r.value = Denotes(call.arg, T))

\* A zero payload decoded into a container that had no value: present but zero.
C2_Witness ==
    /\ call.op = "UnmarshalJSON" /\ call.arg = "0" /\ T = "int"
    /\ ~call.pre.valid
    /\ r = [value |-> IntVal(0), valid |-> TRUE]

\* The Required fields declared in embedded members, as paths of the layout.
EmbeddedRequired(t) == {p \in RequiredPaths(t) : Len(p) > 1}

\* The declared name of the field at a path of the layout.
RECURSIVE DeclAt(_, _, _)
DeclAt(t, p, k) ==
    IF k = Len(p) THEN StructDecl[t][p[k]]
    ELSE DeclAt(Elem(StructDecl[t][p[k]].Type), p, k + 1)

\* C3 (as claimed): Struct finds every Required field declared in an embedded
\* member: unpopulated it yields exactly one failure, populated none.
C3_EmbeddedValidated ==
    (StructOnPtr /\ EmbeddedRequired(ty) # {}) =>
        /\ out.panic = ""
        /\ \A p \in EmbeddedRequired(ty) :
              ReportedTimes(DeclAt(ty, p, 1).Name) = (IF out.pre.cells[p].valid THEN 0 ELSE 1)

\* The visible Required fields that are unpopulated, in the order of Visible.
Missing == SelectSeq(Visible[ty], LAMBDA f : IsRequired(f.Type) /\ ~out.pre.cells[f.Index].valid)

\* C4 (as claimed): with k >= 1 Required fields unpopulated, Struct returns an
\* error whose message is k lines, one per unpopulated field in declaration
\* order, each "field '<name>' in '<type>' is required".
C4_AllFailuresInOrder ==
    (StructOnPtr /\ Len(Missing) >= 1) =>
        /\ out.panic = ""
        /\ ~out.err.nil
        /\ out.err.lines =
             [n \in 1..Len(Missing) |->
                <<"field '", Missing[n].Name, "' in '", "validate", ".", ty, "' is required">>]

C6_ParseShortCircuits ==
    out.op = "Parse" =>
        IF ~out.decodeErr.nil
        THEN ~out.invoked /\ out.panic = "" /\ out.err = out.decodeErr
        ELSE /\ out.invoked
             /\ out.panic = Struct(ArgPtr(ty), ty, out.pre).panic
             /\ out.err = Struct(ArgPtr(ty), ty, out.pre).err

\* Parse of a document whose decode failed, on an instance that Struct finds
\* fault with: the decode error is what came back.
C6_Witness ==
    /\ out.op = "Parse" /\ ~out.decodeErr.nil /\ ~out.invoked
    /\ out.err = out.decodeErr
    /\ ~Struct(ArgPtr(ty), ty, obj).err.nil

\* C7: a failed UnmarshalJSON returns the decoder's error and leaves the
\* populated flag as it was.
C7_FailureKeepsFlag ==
    (call.op = "UnmarshalJSON" /\ ~WellFormed(call.arg, T)) =>
        /\ call.err \in {"SyntaxError", "UnmarshalTypeError"}
        /\ call.err = (IF ValidJSON(call.arg) THEN "UnmarshalTypeError" ELSE "SyntaxError")
        /\ hasValue(r).ret = call.pre.valid

\* Both cases: a failed call on a container that was populated, which still
\* is; and (as the formula covers) one on a container that was not.
C7_Witness ==
    /\ call.op = "UnmarshalJSON" /\ call.err = "UnmarshalTypeError"
    /\ call.pre.valid /\ r.valid

\* C8 (as claimed): the populated flag is true exactly when UnmarshalJSON has
\* succeeded at least once.
C8_ValidIffDecoded == r.valid <=> decoded

\* C8 (amended): the populated flag is true exactly when UnmarshalJSON has
\* succeeded, or SetValid has been called, at least once.
C8_ValidIffDecodedOrMarked == r.valid <=> (decoded \/ marked)

\* SetValid(false) on a container never decoded into: it is populated.
C8_Witness ==
    /\ call.op = "SetValid" /\ call.arg = "false"
    /\ ~decoded /\ r.valid

\* The structure type without its plain fields, and where each of its leaf
\* fields is in the structure type with them.
WithoutPlain ==
    [t \in InstanceTypes |->
        IF t = "Contact" THEN [type |-> "Person", from |-> (<<1>> :> <<1>>) @@ (<<2>> :> <<3>>)]
        ELSE IF t = "Account" THEN [type |-> "Base", from |-> (<<1>> :> <<1>>)]
        ELSE [type |-> t, from |-> [p \in LeafPaths(t) |-> p]]]

Stripped(t, o) ==
    [cells |-> [p \in DOMAIN WithoutPlain[t].from |-> o.cells[WithoutPlain[t].from[p]]],
     nilptr |-> o.nilptr]

Names(e) == [n \in 1..Len(e.lines) |-> e.lines[n][2]]

\* C9 (as claimed): Struct on a structure ends as it does on the structure
\* without its plain fields, whatever they are and hold, and names none of
\* them.
C9_PlainFieldsIgnored ==
    StructOnPtr =>
        LET s == Struct(ArgPtr(WithoutPlain[ty].type), WithoutPlain[ty].type, Stripped(ty, out.pre))
        IN  /\ out.panic = s.panic
            /\ out.err.nil = s.err.nil
            /\ Names(out.err) = Names(s.err)
            /\ \A p \in PlainPaths(ty) : ReportedTimes(DeclAt(ty, p, 1).Name) = 0

\* C10: Struct leaves the value and the populated flag of every field of its
\* argument as they were, whatever it returns.
C10_StructDoesNotMutate == Validated => obj = out.pre

\* Struct(&s) returned missing-field failures.
C10_Witness ==
    /\ StructOnPtr /\ out.panic = ""
    /\ ~out.err.nil /\ out.err.wraps = ""
    /\ obj = out.pre

====
